---- MODULE Spec2Model ----
(***************************************************************************)
(* Model of the capture pipeline of the repository:                        *)
(*   - RotatingJSONLWriter / writer_loop   (rotating_jsonl_writer.py)      *)
(*   - record_binance_depth                (record_binance_depth.py)       *)
(*   - process_raw_dir                     (normalize_l2.py)               *)
(* Three specifications share the variables: SpecWriter drives one writer  *)
(* object directly (with process crashes and restarts on the same          *)
(* directory), SpecPipeline runs the stream consumer and writer_loop over  *)
(* the queue, SpecNormalize runs the normalization pass over a raw file.   *)
(* SpecDiskFailure is SpecPipeline on a disk whose writes may fail.        *)
(* Time is in milliseconds.                                                *)
(***************************************************************************)
EXTENDS Integers, Sequences, FiniteSets, TLC

\* ------------------------------------------------------------------ bounds
\* Items passed to write() in SpecWriter.
MaxItems == 4
\* Clock ticks of TickMs the wall clock may advance.
MaxTicks == 3
\* Writer objects constructed on the output directory (1 = no restart).
MaxWriters == 2

\* Records the stream consumer builds in SpecPipeline.
MaxMsgs == 3
\* Successful connections in SpecPipeline.
MaxConns == 2
\* Consecutive failed connection attempts in SpecPipeline.
MaxFails == 7
\* Lines of the raw file in SpecNormalize.
MaxLines == 3
\* Update ids of the deltas of the raw file, besides those of the scenario.
MaxId == 2
\* Passes of process_raw_dir over the directory.
MaxRuns == 2
\* BATCH_SIZE = 2000 in the source, scaled down.
BATCH_SIZE == 2
\* WRITE_QUEUE_MAX = 500_000 in the source, scaled down.
WRITE_QUEUE_MAX == 2

\* --------------------------------------------------------------- constants
\* FLUSH_INTERVAL_SEC = 0.5, in milliseconds.
FLUSH_INTERVAL_MS == 500
\* backoff = 0.25 and max_backoff = 10.0, in milliseconds.
MIN_BACKOFF_MS == 250
MAX_BACKOFF_MS == 10000
\* Granularity of the modelled clock, in milliseconds.
TickMs == FLUSH_INTERVAL_MS \div 2

\* Optional values: None, or Some(x).
None == <<>>
Some(x) == <<x>>
Buckets == {100, 101}

VARIABLES
    \* RotatingJSONLWriter fields
    current_bucket, fp, tmp_path, final_path, buffer, last_flush,
    \* history: the time write() accepted the oldest line of the buffer (None
    \* while the buffer is empty)
    buffered_since,
    \* the output directory: a function from the paths that exist to their
    \* content (a sequence of chunks)
    fs,
    \* wall clock (time.time()), ms
    now,
    \* life of the writer object: "running" | "closed" | "crashed" (the
    \* process died) | "failed" (a disk failure ended the writer task)
    wstatus,
    \* history: items passed to write(), number of writer objects so far,
    \* whether the process ever crashed
    input, writers, everCrashed,
    \* record_binance_depth: where the coroutine stands
    \*   "connect" | "recv" | "sleep" | "put_none" | "await_writer" |
    \*   "returned" | "raised"
    cpc,
    \* record_binance_depth locals
    q, backoff, conn_id,
    \* writer_loop: "get" | "done" | "failed" (ended with an exception)
    wpc,
    \* the last line printed: "" (none yet), "connected", or the exception
    \* type of a "[binance] error" line
    last_print,
    \* the suspension point at which the cancellation was delivered ("" = none)
    cancelAt,
    \* history: the records built so far (line 126), the items put on the queue,
    \* the failures (exceptions handled at line 150) since the last successful
    \* connection
    nrecv, enqueued, fails,
    \* process_raw_dir: the raw file (a sequence of lines), the normalized
    \* file and the audit file (None while they do not exist)
    raw_file, norm_file, audit_file,
    \* process_raw_dir locals: the Audit object, prev_u, the number of the
    \* next raw line, and where the pass stands
    \*   "idle" | "lines" | "audit_open" | "audit_dump"
    audit, prev_u, lineno, npc,
    \* history: passes started, files skipped, audit records dumped
    runs, skips, audit_records

writerVars ==
    <<current_bucket, fp, tmp_path, final_path, buffer, last_flush, buffered_since>>
histVars == <<input, writers, everCrashed>>
consumerVars ==
    <<cpc, q, backoff, conn_id, wpc, last_print, cancelAt, nrecv, enqueued, fails>>
normVars ==
    <<raw_file, norm_file, audit_file, audit, prev_u, lineno, npc, runs, skips, audit_records>>

\* ------------------------------------------------------------ file naming
\* f"deltas_utcmin_{bucket}.jsonl"
minute_filename(bucket) == <<"deltas_utcmin_", bucket, ".jsonl">>

\* out_dir / f"{name}.tmp"
TmpPathOf(name) == Append(name, ".tmp")

\* A chunk of a file: a whole line, or the torn head of a line whose write
\* was cut by a crash.
WholeLines(buf) == [i \in 1..Len(buf) |-> [line |-> buf[i], whole |-> TRUE]]

TornLine(l) == <<[line |-> l, whole |-> FALSE]>>

Exists(files, path) == path \in DOMAIN files

\* Path.open("ab"): creates the file when missing, keeps its content otherwise.
OpenAppend(files, path) ==
    IF Exists(files, path) THEN files ELSE (path :> <<>>) @@ files

\* fp.write(b"".join(buffer)); fp.flush()
AppendTo(files, path, buf) == [files EXCEPT ![path] = @ \o WholeLines(buf)]

\* Path.replace: atomic rename, an existing target is replaced.
Replace(files, src, dst) ==
    [p \in (DOMAIN files \ {src}) \cup {dst} |-> IF p = dst THEN files[src] ELSE files[p]]

\* What a crash in the middle of writing buf to path can leave on disk: the
\* first k lines, then possibly the torn head of line k+1.
PartialAppends(files, path, buf) ==
    {[files EXCEPT ![path] = @ \o WholeLines(SubSeq(buf, 1, k))] : k \in 0..Len(buf)}
    \cup
    {[files EXCEPT ![path] = @ \o WholeLines(SubSeq(buf, 1, k)) \o TornLine(buf[k + 1])] :
        k \in 0..(Len(buf) - 1)}

\* ------------------------------------------------------------- the writer
\* The writer object and its directory as one value, so that the methods
\* compose as in the source.
WState ==
    [current_bucket |-> current_bucket, fp |-> fp, tmp_path |-> tmp_path,
     final_path |-> final_path, buffer |-> buffer, last_flush |-> last_flush,
     fs |-> fs]

\* RotatingJSONLWriter.__init__
NewWriter(files, t) ==
    [current_bucket |-> None, fp |-> None, tmp_path |-> None, final_path |-> None,
     buffer |-> <<>>, last_flush |-> t, fs |-> files]

\* RotatingJSONLWriter._open_for_bucket
open_for_bucket(s, bucket, t) ==
    LET name == minute_filename(bucket)
        tmp == TmpPathOf(name)
    IN [s EXCEPT !.final_path = name,
                 !.tmp_path = tmp,
                 !.fs = OpenAppend(s.fs, tmp),
                 !.fp = tmp,
                 !.current_bucket = Some(bucket),
                 !.last_flush = t]

\* RotatingJSONLWriter._close_and_finalize
close_and_finalize(s) ==
    IF s.fp = None THEN s
    ELSE LET flushed == IF s.buffer # <<>> THEN AppendTo(s.fs, s.fp, s.buffer) ELSE s.fs
         IN [s EXCEPT !.buffer = <<>>,
                      !.fs = Replace(flushed, s.tmp_path, s.final_path),
                      !.fp = None,
                      !.current_bucket = None,
                      !.tmp_path = None,
                      !.final_path = None]

\* Mutant of Rotate: the file of the new bucket is opened without the old
\* one being flushed and finalized.
Rotate_NoFinalize(s, item, t) ==
    IF s.current_bucket = None \/ Some(item.bucket) # s.current_bucket
    THEN open_for_bucket(s, item.bucket, t)
    ELSE s

\* The rotation at the head of write(): lines 98-100.
Rotate(s, item, t) ==
    IF s.current_bucket = None \/ Some(item.bucket) # s.current_bucket
    THEN open_for_bucket(close_and_finalize(s), item.bucket, t)
    ELSE s

\* Mutant of FlushDue: the batch is flushed only once it exceeds BATCH_SIZE.
FlushDue_Strict(s, t) ==
    Len(s.buffer) > BATCH_SIZE \/ (t - s.last_flush) >= FLUSH_INTERVAL_MS

\* The flush test of write(): lines 105-108.
FlushDue(s, t) ==
    Len(s.buffer) >= BATCH_SIZE \/ (t - s.last_flush) >= FLUSH_INTERVAL_MS

\* RotatingJSONLWriter.write
write(s, item, t) ==
    LET r == Rotate(s, item, t)
        a == [r EXCEPT !.buffer = Append(r.buffer, item.line)]
    IN IF FlushDue(a, t)
       THEN [a EXCEPT !.fs = AppendTo(a.fs, a.fp, a.buffer),
                      !.buffer = <<>>,
                      !.last_flush = t]
       ELSE a

\* RotatingJSONLWriter.close
close(s) == close_and_finalize(s)

\* Directory contents a crash inside _close_and_finalize can leave.
CrashInFinalize(s) ==
    IF s.fp = None THEN {s.fs}
    ELSE PartialAppends(s.fs, s.fp, s.buffer) \cup {close_and_finalize(s).fs}

\* Directory contents a crash inside write(item) can leave: in the rotation
\* (finalize of the old bucket, open of the new one) or in the flush.
CrashInWrite(s, item, t) ==
    LET rotating == s.current_bucket = None \/ Some(item.bucket) # s.current_bucket
        r == Rotate(s, item, t)
        a == [r EXCEPT !.buffer = Append(r.buffer, item.line)]
    IN (IF rotating THEN CrashInFinalize(s) ELSE {s.fs})
       \cup {r.fs}
       \cup (IF FlushDue(a, t) THEN PartialAppends(a.fs, a.fp, a.buffer) ELSE {})

SetWriter(s) ==
    /\ current_bucket' = s.current_bucket
    /\ fp' = s.fp
    /\ tmp_path' = s.tmp_path
    /\ final_path' = s.final_path
    /\ buffer' = s.buffer
    /\ last_flush' = s.last_flush
    /\ fs' = s.fs
    /\ buffered_since' =
          IF s.buffer = <<>> THEN None
          ELSE IF Len(s.buffer) = 1 THEN Some(now)
          ELSE buffered_since

\* ------------------------------------------------------ SpecWriter actions
\* The next item: a bucket in any order, a fresh line.
NextItem(b) == [bucket |-> b, line |-> Len(input) + 1]

WriteCall(b) ==
    /\ wstatus = "running"
    /\ Len(input) < MaxItems
    /\ \E s \in {write(WState, NextItem(b), now)} : SetWriter(s)
    /\ input' = Append(input, NextItem(b))
    /\ UNCHANGED <<now, wstatus, writers, everCrashed, consumerVars, normVars>>

CloseCall ==
    /\ wstatus = "running"
    /\ \E s \in {close(WState)} : SetWriter(s)
    /\ wstatus' = "closed"
    /\ UNCHANGED <<now, histVars, consumerVars, normVars>>

\* The process dies inside write(item): memory is lost, the directory keeps
\* what had reached it.
CrashDuringWrite(b) ==
    /\ wstatus = "running"
    /\ Len(input) < MaxItems
    /\ \E files \in CrashInWrite(WState, NextItem(b), now) :
          SetWriter(NewWriter(files, now))
    /\ input' = Append(input, NextItem(b))
    /\ wstatus' = "crashed"
    /\ everCrashed' = TRUE
    /\ UNCHANGED <<now, writers, consumerVars, normVars>>

\* The process dies inside close(), or between two calls.
CrashDuringClose ==
    /\ wstatus = "running"
    /\ \E files \in CrashInFinalize(WState) :
          SetWriter(NewWriter(files, now))
    /\ wstatus' = "crashed"
    /\ everCrashed' = TRUE
    /\ UNCHANGED <<now, input, writers, consumerVars, normVars>>

\* A new process constructs a writer on the same directory.
Restart ==
    /\ wstatus \in {"closed", "crashed"}
    /\ writers < MaxWriters
    /\ SetWriter(NewWriter(fs, now))
    /\ wstatus' = "running"
    /\ writers' = writers + 1
    /\ UNCHANGED <<now, input, everCrashed, consumerVars, normVars>>

Tick ==
    /\ now < MaxTicks * TickMs
    /\ now' = now + TickMs
    /\ UNCHANGED <<writerVars, fs, wstatus, histVars, consumerVars, normVars>>

vars == <<writerVars, fs, now, wstatus, histVars, consumerVars, normVars>>

\* src.validation.audit.Audit()
NewAudit ==
    [raw_lines |-> 0, bad_json |-> 0, skipped_schema |-> 0, normalize_errors |-> 0,
     kept_lines |-> 0, continuity_ok |-> TRUE, gaps |-> 0, first_gap |-> None]

\* No pass of process_raw_dir has run.
NormIdle ==
    /\ norm_file = None
    /\ audit_file = None
    /\ audit = NewAudit
    /\ prev_u = None
    /\ lineno = 1
    /\ npc = "idle"
    /\ runs = 0
    /\ skips = 0
    /\ audit_records = 0

\* The stream consumer does not run in SpecWriter.
ConsumerIdle ==
    /\ cpc = "returned"
    /\ q = <<>>
    /\ backoff = MIN_BACKOFF_MS
    /\ conn_id = 0
    /\ wpc = "done"
    /\ last_print = ""
    /\ cancelAt = ""
    /\ nrecv = 0
    /\ enqueued = <<>>
    /\ fails = 0

\* The fields of a writer just constructed.
SetInit(s) ==
    /\ current_bucket = s.current_bucket
    /\ fp = s.fp
    /\ tmp_path = s.tmp_path
    /\ final_path = s.final_path
    /\ buffer = s.buffer
    /\ last_flush = s.last_flush
    /\ buffered_since = None

InitWriter ==
    /\ now = 0
    /\ fs = <<>>
    /\ SetInit(NewWriter(<<>>, 0))
    /\ wstatus = "running"
    /\ input = <<>>
    /\ writers = 1
    /\ everCrashed = FALSE
    /\ ConsumerIdle
    /\ raw_file = <<>>
    /\ NormIdle

NextWriter ==
    \/ \E b \in Buckets : WriteCall(b)
    \/ CloseCall
    \/ \E b \in Buckets : CrashDuringWrite(b)
    \/ CrashDuringClose
    \/ Restart
    \/ Tick

SpecWriter == InitWriter /\ [][NextWriter]_vars

\* ------------------------------------------------- record_binance_depth
\* minute_bucket, on a receipt time in seconds (the source first divides the
\* nanosecond timestamp by 1_000_000_000).
minute_bucket(ts_s) == ts_s \div 60

\* Receipt times now_ns() may return (the wall clock may jump backward).
RecvTimes == {100 * 60 + 59, 101 * 60}

RequiredKeys == {"e", "E", "s", "U", "u", "b", "a"}

GoodMsg ==
    [json |-> TRUE, keys |-> RequiredKeys, e |-> "depthUpdate",
     E_int |-> TRUE, Uu_int |-> TRUE, ba_list |-> TRUE]

\* The frames ws.recv() may return: a good depth update and one frame per
\* way of failing orjson.loads or validate_depth_msg.
RawFrames ==
    {GoodMsg,
     [GoodMsg EXCEPT !.json = FALSE],
     [GoodMsg EXCEPT !.keys = RequiredKeys \ {"u"}],
     [GoodMsg EXCEPT !.e = "trade"],
     [GoodMsg EXCEPT !.E_int = FALSE],
     [GoodMsg EXCEPT !.Uu_int = FALSE],
     [GoodMsg EXCEPT !.ba_list = FALSE]}

\* validate_depth_msg: TRUE when it returns, FALSE when it raises ValueError.
validate_depth_msg(msg) ==
    /\ \A k \in RequiredKeys : k \in msg.keys
    /\ msg.e = "depthUpdate"
    /\ msg.E_int
    /\ msg.Uu_int
    /\ msg.ba_list

\* The exception the body of the receive loop raises on raw, "" when none
\* is raised before the enqueue.
DecodeError(raw) ==
    IF ~raw.json THEN "JSONDecodeError"
    ELSE IF ~validate_depth_msg(raw) THEN "ValueError"
    ELSE ""

\* Mutant of OnException: the third consecutive failure is raised to the
\* caller instead of being retried.
OnException_GivesUp(name) ==
    /\ last_print' = name
    /\ fails' = fails + 1
    /\ cpc' = IF fails >= 2 THEN "raised" ELSE "sleep"

\* The handler of `except Exception`: print, then sleep.
OnException(name) ==
    /\ last_print' = name
    /\ fails' = fails + 1
    /\ cpc' = "sleep"

\* Mutant of ConnectOk: the new connection keeps the id of the last one.
ConnectOk_SameId ==
    /\ cpc = "connect"
    /\ conn_id < MaxConns
    /\ conn_id' = IF conn_id = 0 THEN 1 ELSE conn_id
    /\ backoff' = MIN_BACKOFF_MS
    /\ last_print' = "connected"
    /\ fails' = 0
    /\ cpc' = "recv"
    /\ UNCHANGED <<q, wpc, cancelAt, nrecv, enqueued>>
    /\ UNCHANGED <<writerVars, fs, now, wstatus, histVars, normVars>>

\* websockets.connect succeeds: lines 115-117.
ConnectOk ==
    /\ cpc = "connect"
    /\ conn_id < MaxConns
    /\ conn_id' = conn_id + 1
    /\ backoff' = MIN_BACKOFF_MS
    /\ last_print' = "connected"
    /\ fails' = 0
    /\ cpc' = "recv"
    /\ UNCHANGED <<q, wpc, cancelAt, nrecv, enqueued>>
    /\ UNCHANGED <<writerVars, fs, now, wstatus, histVars, normVars>>

\* websockets.connect raises.
ConnectFail ==
    /\ cpc = "connect"
    /\ fails < MaxFails
    /\ OnException("OSError")
    /\ UNCHANGED <<q, backoff, conn_id, wpc, cancelAt, nrecv, enqueued>>
    /\ UNCHANGED <<writerVars, fs, now, wstatus, histVars, normVars>>

\* Mutant of PutNowait: a full queue drops the item and the loop goes on.
PutNowait_DropWhenFull(item) ==
    IF Len(q) >= WRITE_QUEUE_MAX
    THEN UNCHANGED <<q, enqueued, cpc, last_print, fails>>
    ELSE /\ q' = Append(q, Some(item))
         /\ enqueued' = Append(enqueued, item)
         /\ UNCHANGED <<cpc, last_print, fails>>

\* q.put_nowait(WriteItem(...)): lines 141-146. Raises RuntimeError when the
\* queue is full.
PutNowait(item) ==
    IF Len(q) >= WRITE_QUEUE_MAX
    THEN /\ OnException("RuntimeError")
         /\ UNCHANGED <<q, enqueued>>
    ELSE /\ q' = Append(q, Some(item))
         /\ enqueued' = Append(enqueued, item)
         /\ UNCHANGED <<cpc, last_print, fails>>

\* One turn of the receive loop on a frame that decodes and validates:
\* lines 120-146.
RecvRecord(ts) ==
    /\ cpc = "recv"
    /\ nrecv < MaxMsgs
    /\ nrecv' = nrecv + 1
    /\ LET record == [conn_id |-> conn_id, recv_ts |-> ts, msg |-> nrecv + 1]
       IN PutNowait([bucket |-> minute_bucket(ts), line |-> record])
    /\ UNCHANGED <<backoff, conn_id, wpc, cancelAt>>
    /\ UNCHANGED <<writerVars, fs, now, wstatus, histVars, normVars>>

\* One turn of the receive loop on a frame that orjson.loads or
\* validate_depth_msg rejects: lines 120-124.
RecvRejected(raw) ==
    /\ cpc = "recv"
    /\ DecodeError(raw) # ""
    /\ OnException(DecodeError(raw))
    /\ UNCHANGED <<q, backoff, conn_id, wpc, cancelAt, nrecv, enqueued>>
    /\ UNCHANGED <<writerVars, fs, now, wstatus, histVars, normVars>>

\* ws.recv() raises (the connection is lost).
RecvFail ==
    /\ cpc = "recv"
    /\ OnException("ConnectionClosed")
    /\ UNCHANGED <<q, backoff, conn_id, wpc, cancelAt, nrecv, enqueued>>
    /\ UNCHANGED <<writerVars, fs, now, wstatus, histVars, normVars>>

\* CancelledError delivered inside the try block (in websockets.connect or
\* in ws.recv()): caught at line 148, the loop is left.
CancelInTry ==
    /\ cancelAt = ""
    /\ cpc \in {"connect", "recv"}
    /\ cancelAt' = cpc
    /\ cpc' = "put_none"
    /\ UNCHANGED <<q, backoff, conn_id, wpc, last_print, fails, nrecv, enqueued>>
    /\ UNCHANGED <<writerVars, fs, now, wstatus, histVars, normVars>>

\* Mutant of SleepDone: the delay doubles without the cap.
SleepDone_NoCap ==
    /\ cpc = "sleep"
    /\ backoff' = backoff * 2
    /\ cpc' = "connect"
    /\ UNCHANGED <<q, conn_id, wpc, last_print, fails, cancelAt, nrecv, enqueued>>
    /\ UNCHANGED <<writerVars, fs, now, wstatus, histVars, normVars>>

\* asyncio.sleep(backoff) returns, then line 156.
SleepDone ==
    /\ cpc = "sleep"
    /\ backoff' = IF backoff * 2 < MAX_BACKOFF_MS THEN backoff * 2 ELSE MAX_BACKOFF_MS
    /\ cpc' = "connect"
    /\ UNCHANGED <<q, conn_id, wpc, last_print, fails, cancelAt, nrecv, enqueued>>
    /\ UNCHANGED <<writerVars, fs, now, wstatus, histVars, normVars>>

\* CancelledError delivered in asyncio.sleep(backoff), line 155: the await
\* stands in the except handler, outside the try block, so the exception
\* leaves the function.
CancelInSleep ==
    /\ cancelAt = ""
    /\ cpc = "sleep"
    /\ cancelAt' = "sleep"
    /\ cpc' = "raised"
    /\ UNCHANGED <<q, backoff, conn_id, wpc, last_print, fails, nrecv, enqueued>>
    /\ UNCHANGED <<writerVars, fs, now, wstatus, histVars, normVars>>

\* await q.put(None), line 159: waits while the queue is full.
PutNone ==
    /\ cpc = "put_none"
    /\ Len(q) < WRITE_QUEUE_MAX
    /\ q' = Append(q, None)
    /\ cpc' = "await_writer"
    /\ UNCHANGED <<backoff, conn_id, wpc, last_print, fails, cancelAt, nrecv, enqueued>>
    /\ UNCHANGED <<writerVars, fs, now, wstatus, histVars, normVars>>

\* await writer_task, line 160.
AwaitWriter ==
    /\ cpc = "await_writer"
    /\ wpc = "done"
    /\ cpc' = "returned"
    /\ UNCHANGED <<q, backoff, conn_id, wpc, last_print, fails, cancelAt, nrecv, enqueued>>
    /\ UNCHANGED <<writerVars, fs, now, wstatus, histVars, normVars>>

\* ------------------------------------------------------------ writer_loop
\* Mutant of WriterLoopItem: the newest queued item is taken first.
WriterLoopItem_Lifo ==
    /\ wpc = "get"
    /\ q # <<>>
    /\ q[Len(q)] # None
    /\ \E s \in {write(WState, q[Len(q)][1], now)} : SetWriter(s)
    /\ input' = Append(input, q[Len(q)][1])
    /\ q' = SubSeq(q, 1, Len(q) - 1)
    /\ UNCHANGED <<cpc, backoff, conn_id, wpc, last_print, fails, cancelAt, nrecv, enqueued>>
    /\ UNCHANGED <<now, wstatus, writers, everCrashed, normVars>>

\* queue.get() returns an item: writer.write(item), lines 136-141.
WriterLoopItem ==
    /\ wpc = "get"
    /\ q # <<>>
    /\ Head(q) # None
    /\ \E s \in {write(WState, Head(q)[1], now)} : SetWriter(s)
    /\ input' = Append(input, Head(q)[1])
    /\ q' = Tail(q)
    /\ UNCHANGED <<cpc, backoff, conn_id, wpc, last_print, fails, cancelAt, nrecv, enqueued>>
    /\ UNCHANGED <<now, wstatus, writers, everCrashed, normVars>>

\* Mutant of WriterLoopSentinel: the loop ends without writer.close().
WriterLoopSentinel_NoClose ==
    /\ wpc = "get"
    /\ q # <<>>
    /\ Head(q) = None
    /\ q' = Tail(q)
    /\ wpc' = "done"
    /\ UNCHANGED <<cpc, backoff, conn_id, last_print, fails, cancelAt, nrecv, enqueued>>
    /\ UNCHANGED <<writerVars, fs, now, wstatus, histVars, normVars>>

\* queue.get() returns the None sentinel: break, then writer.close() in the
\* finally clause, lines 137-143.
WriterLoopSentinel ==
    /\ wpc = "get"
    /\ q # <<>>
    /\ Head(q) = None
    /\ \E s \in {close(WState)} : SetWriter(s)
    /\ q' = Tail(q)
    /\ wpc' = "done"
    /\ wstatus' = "closed"
    /\ UNCHANGED <<cpc, backoff, conn_id, last_print, fails, cancelAt, nrecv, enqueued>>
    /\ UNCHANGED <<now, histVars, normVars>>

InitPipeline ==
    /\ now = 0
    /\ fs = <<>>
    /\ SetInit(NewWriter(<<>>, 0))
    /\ wstatus = "running"
    /\ input = <<>>
    /\ writers = 1
    /\ everCrashed = FALSE
    /\ cpc = "connect"
    /\ q = <<>>
    /\ backoff = MIN_BACKOFF_MS
    /\ conn_id = 0
    /\ wpc = "get"
    /\ last_print = ""
    /\ cancelAt = ""
    /\ nrecv = 0
    /\ enqueued = <<>>
    /\ fails = 0
    /\ raw_file = <<>>
    /\ NormIdle

Consumer ==
    \/ ConnectOk
    \/ ConnectFail
    \/ \E ts \in RecvTimes : RecvRecord(ts)
    \/ \E raw \in RawFrames : RecvRejected(raw)
    \/ RecvFail
    \/ SleepDone
    \/ PutNone
    \/ AwaitWriter

Cancel == CancelInTry \/ CancelInSleep

WriterLoop == WriterLoopItem \/ WriterLoopSentinel

NextPipeline == Consumer \/ Cancel \/ WriterLoop \/ Tick

SpecPipeline == InitPipeline /\ [][NextPipeline]_vars

\* The event loop runs every task that is ready: the writer task when the
\* queue is not empty, the consumer when its put or its await can complete.
FairPipeline ==
    /\ SpecPipeline
    /\ WF_vars(WriterLoop)
    /\ WF_vars(PutNone)
    /\ WF_vars(AwaitWriter)

\* -------------------------------------------------------- process_raw_dir
\* The raw lines a file may hold: a line orjson.loads rejects, a JSON value
\* that is no depth delta, a delta normalize_delta rejects, and deltas with
\* update ids U <= u.
DeltaRanges ==
    {<<U, u>> : U \in 1..MaxId, u \in 1..MaxId} \cup {<<1, 5>>, <<6, 10>>, <<12, 15>>}

RawLines ==
    {[kind |-> k, U |-> 0, u |-> 0] : k \in {"bad_json", "not_delta", "bad_delta"}}
    \cup {[kind |-> "delta", U |-> r[1], u |-> r[2]] : r \in {d \in DeltaRanges : d[1] <= d[2]}}

\* orjson.loads(line): TRUE when it returns.
JsonLoads(line) == line.kind # "bad_json"

\* src.core.schemas.l2_delta.is_depth_delta
is_depth_delta(raw) == raw.kind # "not_delta"

\* src.core.schemas.l2_delta.normalize_delta: TRUE when it returns.
NormalizeOk(raw) == raw.kind # "bad_delta"

\* src.core.schemas.l2_delta.normalize_delta: the normalized record.
normalize_delta(raw) == [U |-> raw.U, u |-> raw.u]

\* src.validation.continuity.continuity_ok
continuity_ok(prev, U, u) ==
    prev = None \/ (U <= prev[1] + 1 /\ prev[1] + 1 <= u)

\* The state of the loop over the lines of one raw file.
LoopState == [audit |-> audit, prev_u |-> prev_u, out |-> norm_file[1]]

\* Mutant of CheckContinuity: the anchor advances to U instead of u.
CheckContinuity_AnchorU(a, prev, d) ==
    IF ~continuity_ok(prev, d.U, d.u)
    THEN [audit |->
            [a EXCEPT !.continuity_ok = FALSE,
                      !.gaps = @ + 1,
                      !.first_gap =
                          IF @ = None
                          THEN Some([prev_u |-> prev[1], U |-> d.U, u |-> d.u,
                                     line |-> a.raw_lines])
                          ELSE @],
          prev_u |-> None]
    ELSE [audit |-> a, prev_u |-> Some(d.U)]

\* The continuity step on a kept delta: lines 63-76.
CheckContinuity(a, prev, d) ==
    IF ~continuity_ok(prev, d.U, d.u)
    THEN [audit |->
            [a EXCEPT !.continuity_ok = FALSE,
                      !.gaps = @ + 1,
                      !.first_gap =
                          IF @ = None
                          THEN Some([prev_u |-> prev[1], U |-> d.U, u |-> d.u,
                                     line |-> a.raw_lines])
                          ELSE @],
          prev_u |-> None]
    ELSE [audit |-> a, prev_u |-> Some(d.u)]

\* Mutant of ProcessLine: the `continue` after a schema mismatch is missing,
\* the line goes on to be counted as kept and written.
ProcessLine_NoContinue(st, line) ==
    LET a == [st.audit EXCEPT !.raw_lines = @ + 1]
    IN IF ~JsonLoads(line)
       THEN [st EXCEPT !.audit = [a EXCEPT !.bad_json = @ + 1]]
       ELSE IF ~NormalizeOk(line)
       THEN [st EXCEPT !.audit = [a EXCEPT !.normalize_errors = @ + 1]]
       ELSE LET s == IF is_depth_delta(line) THEN a ELSE [a EXCEPT !.skipped_schema = @ + 1]
                d == normalize_delta(line)
                c == CheckContinuity([s EXCEPT !.kept_lines = @ + 1], st.prev_u, d)
            IN [audit |-> c.audit, prev_u |-> c.prev_u, out |-> Append(st.out, d)]

\* Mutant of ProcessLine: first_gap records the count of kept lines as its
\* line number.
ProcessLine_GapLineKept(st, line) ==
    LET a == [st.audit EXCEPT !.raw_lines = @ + 1]
    IN IF ~JsonLoads(line)
       THEN [st EXCEPT !.audit = [a EXCEPT !.bad_json = @ + 1]]
       ELSE IF ~is_depth_delta(line)
       THEN [st EXCEPT !.audit = [a EXCEPT !.skipped_schema = @ + 1]]
       ELSE IF ~NormalizeOk(line)
       THEN [st EXCEPT !.audit = [a EXCEPT !.normalize_errors = @ + 1]]
       ELSE LET d == normalize_delta(line)
                k == [a EXCEPT !.kept_lines = @ + 1]
                c == CheckContinuity([k EXCEPT !.raw_lines = k.kept_lines], st.prev_u, d)
            IN [audit |-> [c.audit EXCEPT !.raw_lines = a.raw_lines],
                prev_u |-> c.prev_u, out |-> Append(st.out, d)]

\* The body of `for line in fin`: lines 43-78.
ProcessLine(st, line) ==
    LET a == [st.audit EXCEPT !.raw_lines = @ + 1]
    IN IF ~JsonLoads(line)
       THEN [st EXCEPT !.audit = [a EXCEPT !.bad_json = @ + 1]]
       ELSE IF ~is_depth_delta(line)
       THEN [st EXCEPT !.audit = [a EXCEPT !.skipped_schema = @ + 1]]
       ELSE IF ~NormalizeOk(line)
       THEN [st EXCEPT !.audit = [a EXCEPT !.normalize_errors = @ + 1]]
       ELSE LET d == normalize_delta(line)
                c == CheckContinuity([a EXCEPT !.kept_lines = @ + 1], st.prev_u, d)
            IN [audit |-> c.audit, prev_u |-> c.prev_u, out |-> Append(st.out, d)]

\* Mutant of AlreadyDone: the audit file alone decides.
AlreadyDone_AuditMissing == norm_file # None /\ audit_file = None

\* The test of line 35.
AlreadyDone == norm_file # None /\ audit_file # None

\* A pass over a directory whose raw file has both outputs: line 36.
RunSkips ==
    /\ npc = "idle"
    /\ runs < MaxRuns
    /\ AlreadyDone
    /\ runs' = runs + 1
    /\ skips' = skips + 1
    /\ UNCHANGED <<raw_file, norm_file, audit_file, audit, prev_u, lineno, npc, audit_records>>
    /\ UNCHANGED <<writerVars, fs, now, wstatus, histVars, consumerVars>>

\* Mutant of RunBegins: the audit file is created when the pass begins.
RunBegins_AuditFirst ==
    /\ npc = "idle"
    /\ runs < MaxRuns
    /\ ~AlreadyDone
    /\ runs' = runs + 1
    /\ audit' = NewAudit
    /\ prev_u' = None
    /\ norm_file' = Some(<<>>)
    /\ audit_file' = Some(<<>>)
    /\ lineno' = 1
    /\ npc' = "lines"
    /\ UNCHANGED <<raw_file, skips, audit_records>>
    /\ UNCHANGED <<writerVars, fs, now, wstatus, histVars, consumerVars>>

\* A pass that processes the raw file: lines 38-41 (the normalized file is
\* opened "wb": created or truncated).
RunBegins ==
    /\ npc = "idle"
    /\ runs < MaxRuns
    /\ ~AlreadyDone
    /\ runs' = runs + 1
    /\ audit' = NewAudit
    /\ prev_u' = None
    /\ norm_file' = Some(<<>>)
    /\ lineno' = 1
    /\ npc' = "lines"
    /\ UNCHANGED <<raw_file, audit_file, skips, audit_records>>
    /\ UNCHANGED <<writerVars, fs, now, wstatus, histVars, consumerVars>>

ReadLine ==
    /\ npc = "lines"
    /\ lineno <= Len(raw_file)
    /\ LET st == ProcessLine(LoopState, raw_file[lineno])
       IN /\ audit' = st.audit
          /\ prev_u' = st.prev_u
          /\ norm_file' = Some(st.out)
    /\ lineno' = lineno + 1
    /\ UNCHANGED <<raw_file, audit_file, npc, runs, skips, audit_records>>
    /\ UNCHANGED <<writerVars, fs, now, wstatus, histVars, consumerVars>>

\* The end of the raw file: both files are closed (the end of the `with`).
EndOfFile ==
    /\ npc = "lines"
    /\ lineno > Len(raw_file)
    /\ npc' = "audit_open"
    /\ UNCHANGED <<raw_file, norm_file, audit_file, audit, prev_u, lineno, runs, skips,
                   audit_records>>
    /\ UNCHANGED <<writerVars, fs, now, wstatus, histVars, consumerVars>>

\* audit_file.open("w"): line 80.
AuditOpen ==
    /\ npc = "audit_open"
    /\ audit_file' = Some(<<>>)
    /\ npc' = "audit_dump"
    /\ UNCHANGED <<raw_file, norm_file, audit, prev_u, lineno, runs, skips, audit_records>>
    /\ UNCHANGED <<writerVars, fs, now, wstatus, histVars, consumerVars>>

\* json.dump of the stats and the close of the audit file: lines 81-90.
AuditDump ==
    /\ npc = "audit_dump"
    /\ audit_file' = Some(<<audit>>)
    /\ audit_records' = audit_records + 1
    /\ npc' = "idle"
    /\ UNCHANGED <<raw_file, norm_file, audit, prev_u, lineno, runs, skips>>
    /\ UNCHANGED <<writerVars, fs, now, wstatus, histVars, consumerVars>>

\* The process dies during a pass: the files keep what had reached them (of
\* a normalized file still open, some prefix of the lines written).
NormCrash ==
    /\ npc # "idle"
    /\ npc' = "idle"
    /\ IF npc = "lines"
       THEN \E k \in 0..Len(norm_file[1]) : norm_file' = Some(SubSeq(norm_file[1], 1, k))
       ELSE UNCHANGED norm_file
    /\ UNCHANGED <<raw_file, audit_file, audit, prev_u, lineno, runs, skips, audit_records>>
    /\ UNCHANGED <<writerVars, fs, now, wstatus, histVars, consumerVars>>

RECURSIVE SeqsUpTo(_, _)
\* The sequences over S of length at most n.
SeqsUpTo(S, n) ==
    IF n = 0 THEN {<<>>}
    ELSE LET shorter == SeqsUpTo(S, n - 1)
         IN shorter \cup {Append(w, x) : w \in shorter, x \in S}

InitNormalize ==
    /\ raw_file \in SeqsUpTo(RawLines, MaxLines)
    /\ NormIdle
    /\ now = 0
    /\ fs = <<>>
    /\ SetInit(NewWriter(<<>>, 0))
    /\ wstatus = "closed"
    /\ input = <<>>
    /\ writers = 1
    /\ everCrashed = FALSE
    /\ ConsumerIdle

NextNormalize ==
    \/ RunSkips
    \/ RunBegins
    \/ ReadLine
    \/ EndOfFile
    \/ AuditOpen
    \/ AuditDump
    \/ NormCrash

SpecNormalize == InitNormalize /\ [][NextNormalize]_vars

\* ----------------------------------------------------- claims: the writer
\* The lines of the items of bucket b among items, in order.
RECURSIVE LinesOfBucket(_, _)
LinesOfBucket(items, b) ==
    IF items = <<>> THEN <<>>
    ELSE (IF Head(items).bucket = b THEN <<Head(items).line>> ELSE <<>>)
         \o LinesOfBucket(Tail(items), b)

\* The content of the file at the final name of bucket b (empty when there
\* is no such file).
FinalContent(b) ==
    IF Exists(fs, minute_filename(b)) THEN fs[minute_filename(b)] ELSE <<>>

IsTmpName(path) == path[Len(path)] = ".tmp"

\* One writer, no crash, write() calls followed by close().
CleanRunClosed == wstatus = "closed" /\ writers = 1 /\ ~everCrashed

\* C1: after any sequence of write() calls followed by close(), the file at
\* the final name of every bucket b holds exactly the lines of the input
\* items of bucket b, in input order (nothing lost, duplicated, reordered).
C1_FinalFilesHoldInput ==
    CleanRunClosed =>
        \A b \in Buckets : FinalContent(b) = WholeLines(LinesOfBucket(input, b))

\* C2: every file visible at a final name (no .tmp suffix) holds only whole
\* lines, also after a crash at any step and a restart on the directory.
C2_FinalFilesComplete ==
    \A path \in DOMAIN fs :
        ~IsTmpName(path) => \A i \in 1..Len(fs[path]) : fs[path][i].whole


\* --------------------------------------------------- claims: the pipeline
NoTmpFile == \A path \in DOMAIN fs : ~IsTmpName(path)

\* The writer has consumed everything enqueued and finalized its file.
Drained == wpc = "done" /\ q = <<>> /\ input = enqueued /\ NoTmpFile

\* C3: an enqueue attempted on a full queue fails at once: the queue is
\* left unchanged, nothing is enqueued, the RuntimeError is printed and the
\* connection is left for the backoff sleep.
C3_FullQueueRaises ==
    [][((\E ts \in RecvTimes : RecvRecord(ts)) /\ Len(q) >= WRITE_QUEUE_MAX)
        => (q' = q /\ enqueued' = enqueued /\ last_print' = "RuntimeError" /\ cpc' = "sleep")]_vars

C3_Witness ==
    last_print = "RuntimeError" /\ cpc = "sleep" /\ Len(q) = WRITE_QUEUE_MAX /\ nrecv > Len(enqueued)

\* C4: a cancellation delivered in the blocking receive leads to: the
\* writer has consumed every item enqueued, no .tmp file is left, and
\* record_binance_depth has returned (not raised).
C4_CancelInRecvDrains ==
    (cancelAt = "recv") ~> (cpc = "returned" /\ Drained)

C4_Witness ==
    cancelAt = "recv" /\ cpc = "returned" /\ Drained /\ Len(enqueued) >= 2

\* C5: when record_binance_depth has ended after a cancellation delivered
\* in the backoff sleep, the queue was signalled closed and the writer has
\* drained it and finalized its file.
C5_CancelInSleepDrains ==
    (cancelAt = "sleep" /\ cpc \in {"returned", "raised"}) => Drained

IsPrefix(a, b) == Len(a) <= Len(b) /\ SubSeq(b, 1, Len(a)) = a

\* C6: the items handed to write() are at every moment a prefix of the
\* items enqueued, and the lines of every file are in enqueue order.
C6_WriterSeesPrefix ==
    /\ IsPrefix(input, enqueued)
    /\ \A path \in DOMAIN fs : \A i, j \in 1..Len(fs[path]) :
          i < j => fs[path][i].line.msg < fs[path][j].line.msg

C6_Witness ==
    /\ Len(input) >= 2
    /\ Len(enqueued) > Len(input)
    /\ \E path \in DOMAIN fs : Len(fs[path]) >= 2

\* ---------------------------------------------- claims: process_raw_dir
\* The raw lines the running pass has processed.
Processed == SubSeq(raw_file, 1, lineno - 1)

InPass == npc # "idle"

PassEnded == npc \in {"audit_open", "audit_dump"}

\* The numbers of the kept lines (the deltas) of lines.
KeptIdx(lines) == {i \in 1..Len(lines) : lines[i].kind = "delta"}

HasPrevKept(lines, i) == \E j \in KeptIdx(lines) : j < i

\* The kept line before line i.
PrevKept(lines, i) ==
    CHOOSE j \in KeptIdx(lines) : j < i /\ \A k \in KeptIdx(lines) : k < i => k <= j

\* The delta of line i starts beyond the previous kept delta's u + 1.
Ahead(lines, i) ==
    HasPrevKept(lines, i) /\ lines[i].U > lines[PrevKept(lines, i)].u + 1

\* The delta of line i ends before the previous kept delta's u + 1.
Stale(lines, i) ==
    HasPrevKept(lines, i) /\ lines[i].u < lines[PrevKept(lines, i)].u + 1

NoMissingRange(lines) ==
    \A i \in KeptIdx(lines) : ~Ahead(lines, i) /\ ~Stale(lines, i)

\* What first_gap holds when it describes the delta of line i.
GapRecord(lines, i) ==
    Some([prev_u |-> lines[PrevKept(lines, i)].u, U |-> lines[i].U, u |-> lines[i].u,
          line |-> i])

First(S) == CHOOSE i \in S : \A j \in S : i <= j

Count(lines, kind) == Cardinality({i \in 1..Len(lines) : lines[i].kind = kind})

\* The stats of the audit record on disk.
Dumped == audit_file # None /\ audit_file[1] # <<>>

DumpedStats == audit_file[1][1]

NoGapReported(a) == a.continuity_ok /\ a.gaps = 0 /\ a.first_gap = None

\* C7: when the kept deltas have no missing update range (for each after
\* the first, U <= previous u + 1 <= u), the pass reports continuity_ok,
\* gaps = 0 and no first_gap, at every line and in the audit record.
C7_NoMissingRangeNoGap ==
    /\ (InPass /\ NoMissingRange(Processed)) => NoGapReported(audit)
    /\ (Dumped /\ NoMissingRange(raw_file)) => NoGapReported(DumpedStats)

C7_Witness ==
    /\ Dumped
    /\ NoMissingRange(raw_file)
    /\ Cardinality(KeptIdx(raw_file)) = MaxLines
    /\ NoGapReported(DumpedStats)

AheadIdx(lines) == {i \in KeptIdx(lines) : Ahead(lines, i)}

DiscontinuousIdx(lines) == {i \in KeptIdx(lines) : Ahead(lines, i) \/ Stale(lines, i)}

Scenario ==
    <<[kind |-> "delta", U |-> 1, u |-> 5], [kind |-> "delta", U |-> 6, u |-> 10],
      [kind |-> "delta", U |-> 12, u |-> 15]>>

ScenarioAudit ==
    /\ audit.gaps = 1
    /\ audit.first_gap = Some([prev_u |-> 10, U |-> 12, u |-> 15, line |-> 3])
    /\ audit.kept_lines = 3

C9_RerunIsNoOp ==
    [][(npc = "idle" /\ norm_file # None /\ audit_file # None)
        => (norm_file' = norm_file /\ audit_file' = audit_file
            /\ audit_records' = audit_records /\ npc' = "idle")]_vars

C9_Witness == skips >= 1 /\ Dumped /\ audit_records = 1 /\ Len(norm_file[1]) >= 2

\* C10: after every line, raw_lines counts the lines read, each line is
\* counted in exactly one of bad_json, skipped_schema, normalize_errors and
\* kept_lines, and the normalized file holds kept_lines lines.
C10_CountersPartitionLines ==
    InPass =>
        /\ audit.raw_lines = Len(Processed)
        /\ audit.bad_json = Count(Processed, "bad_json")
        /\ audit.skipped_schema = Count(Processed, "not_delta")
        /\ audit.normalize_errors = Count(Processed, "bad_delta")
        /\ audit.kept_lines = Count(Processed, "delta")
        /\ audit.raw_lines = audit.bad_json + audit.skipped_schema
                                + audit.normalize_errors + audit.kept_lines
        /\ Len(norm_file[1]) = audit.kept_lines

C10_Witness ==
    /\ PassEnded
    /\ Len(raw_file) = 3
    /\ raw_file[1].kind = "delta" /\ raw_file[2].kind = "bad_json" /\ raw_file[3].kind = "delta"
    /\ audit.bad_json = 1
    /\ audit.kept_lines = 2
    /\ Len(norm_file[1]) = 2

\* ------------------------------------------- claims: the reconnect delay
Min(a, b) == IF a <= b THEN a ELSE b

\* min(10, 0.25 * 2^k) seconds, in milliseconds.
Delay(k) == Min(MAX_BACKOFF_MS, MIN_BACKOFF_MS * 2^k)

\* C11: the delay is always within [0.25 s, 10 s]; the sleep that follows k
\* consecutive failures since the last successful connection (the sleep of
\* failure k + 1) lasts min(10, 0.25 * 2^k) seconds, and the delay is at its
\* minimum while connected.
C11_BackoffSchedule ==
    /\ MIN_BACKOFF_MS <= backoff /\ backoff <= MAX_BACKOFF_MS
    /\ cpc = "sleep" => backoff = Delay(fails - 1)
    /\ cpc = "connect" => backoff = Delay(fails)
    /\ cpc = "recv" => (fails = 0 /\ backoff = MIN_BACKOFF_MS)

\* The delay has reached the cap after a connection had reset it.
C11_Witness ==
    /\ cpc = "sleep"
    /\ conn_id >= 1
    /\ fails = MaxFails
    /\ backoff = MAX_BACKOFF_MS

\* ------------------------------------------------- a failing disk
\* writer.write(item) raises OSError (line 140): the directory keeps what a
\* cut write leaves, writer.close() in the finally clause fails on the same
\* disk, and the exception ends the writer task.
WriterLoopFails ==
    /\ wpc = "get"
    /\ q # <<>>
    /\ Head(q) # None
    /\ \E files \in CrashInWrite(WState, Head(q)[1], now) :
          SetWriter(NewWriter(files, now))
    /\ input' = Append(input, Head(q)[1])
    /\ q' = Tail(q)
    /\ wpc' = "failed"
    /\ wstatus' = "failed"
    /\ UNCHANGED <<cpc, backoff, conn_id, last_print, fails, cancelAt, nrecv, enqueued>>
    /\ UNCHANGED <<now, writers, everCrashed, normVars>>

\* The sentinel is taken and writer.close() raises OSError (line 143).
WriterLoopCloseFails ==
    /\ wpc = "get"
    /\ q # <<>>
    /\ Head(q) = None
    /\ \E files \in CrashInFinalize(WState) :
          SetWriter(NewWriter(files, now))
    /\ q' = Tail(q)
    /\ wpc' = "failed"
    /\ wstatus' = "failed"
    /\ UNCHANGED <<cpc, backoff, conn_id, last_print, fails, cancelAt, nrecv, enqueued>>
    /\ UNCHANGED <<now, histVars, normVars>>

\* await writer_task, line 160, on a task that ended with an exception: the
\* exception is raised to the caller of record_binance_depth.
AwaitWriterRaises ==
    /\ cpc = "await_writer"
    /\ wpc = "failed"
    /\ cpc' = "raised"
    /\ UNCHANGED <<q, backoff, conn_id, wpc, last_print, fails, cancelAt, nrecv, enqueued>>
    /\ UNCHANGED <<writerVars, fs, now, wstatus, histVars, normVars>>

NextDiskFailure ==
    \/ NextPipeline
    \/ WriterLoopFails
    \/ WriterLoopCloseFails
    \/ AwaitWriterRaises

\* The pipeline on a disk that may fail.
SpecDiskFailure == InitPipeline /\ [][NextDiskFailure]_vars

\* C12: once the writer task has ended with a disk failure, the stream
\* consumer enqueues no further record and opens no further connection (the
\* failure stops the pipeline).
C12_WriterFailureStopsConsumer ==
    [][wpc = "failed" => (enqueued' = enqueued /\ conn_id' = conn_id)]_vars

\* ------------------------------------------- claims: writer restarts
\* Every item written so far, by any writer object, is of one bucket.
OneBucketOnly == \E b \in Buckets : \A i \in 1..Len(input) : input[i].bucket = b

\* C13: when writer objects constructed one after the other on the same
\* directory have each written items of the same bucket and been closed
\* (no crash), the file at the final name of the bucket holds the lines of
\* the earlier writers followed by those of the later ones.
C13_RestartKeepsFinalizedLines ==
    (wstatus = "closed" /\ ~everCrashed /\ OneBucketOnly) =>
        \A b \in Buckets : FinalContent(b) = WholeLines(LinesOfBucket(input, b))

\* ------------------------------------- claims: the continuity anchor
Last(S) == CHOOSE i \in S : \A j \in S : j <= i

\* C14: after a kept delta has been processed, continuous or counted as a
\* gap, prev_u is that delta's u; so every kept delta that is discontinuous
\* with the kept delta before it is counted as a gap (two discontinuities
\* in a row are two gaps).
C14_AnchorFollowsKeptDelta ==
    (InPass /\ KeptIdx(Processed) # {}) =>
        /\ prev_u = Some(Processed[Last(KeptIdx(Processed))].u)
        /\ audit.gaps = Cardinality(DiscontinuousIdx(Processed))

\* ------------------------------------------- claims: one open file
TmpFiles(files) == {path \in DOMAIN files : IsTmpName(path)}

\* The bucket in the name of a file, final or .tmp.
BucketOfPath(path) == path[2]

\* A write() that finds another bucket open.
RotatingStep ==
    /\ wstatus = "running" /\ wstatus' = "running"
    /\ current_bucket # None
    /\ current_bucket' # current_bucket

\* C15: with no crash, the only file being written is the one of fp (at
\* most one .tmp file, none when fp is unset), also in what a first crash
\* leaves; a write() of another bucket leaves the old bucket's file under
\* its final name, holding what it held followed by the lines buffered,
\* and only the new bucket's file open; every line of every file is of the
\* bucket the file is named after.
C15_OneOpenFileRotation ==
    /\ [](~everCrashed =>
            TmpFiles(fs) = (IF fp = None THEN {} ELSE {fp}))
    /\ [](\A path \in DOMAIN fs : \A i \in 1..Len(fs[path]) :
            input[fs[path][i].line].bucket = BucketOfPath(path))
    /\ [][~everCrashed => Cardinality(TmpFiles(fs')) <= 1]_vars
    /\ [][(RotatingStep /\ ~everCrashed) =>
            /\ ~Exists(fs', tmp_path)
            /\ Exists(fs', final_path)
            /\ fs'[final_path] = fs[tmp_path] \o WholeLines(buffer)
            /\ fp' = TmpPathOf(minute_filename(current_bucket'[1]))
            /\ TmpFiles(fs') = {fp'}]_vars

\* A rotation has flushed a line that was only in the buffer.
C15_Witness ==
    /\ ~everCrashed /\ writers = 1 /\ wstatus = "running"
    /\ now = 0
    /\ Len(input) = 2 /\ input[1].bucket = 100 /\ input[2].bucket = 101
    /\ FinalContent(100) = WholeLines(<<1>>)
    /\ fp = TmpPathOf(minute_filename(101))
    /\ buffer = <<2>>

\* ------------------------------------------- claims: the time threshold
\* C16: while the writer runs, no line has been only in the buffer for
\* longer than FLUSH_INTERVAL_SEC, also when no further item arrives.
C16_BufferedAtMostFlushInterval ==
    (wstatus = "running" /\ buffer # <<>>) =>
        now - buffered_since[1] <= FLUSH_INTERVAL_MS

\* ------------------------------------------- claims: unbounded retries
\* asyncio.sleep(backoff) returns once the delay has passed.
FairConsumer == SpecPipeline /\ WF_vars(SleepDone)

\* C17: every handled failure (a failed connect, a lost connection, a
\* rejected frame, a full queue) takes the consumer to the backoff sleep;
\* the sleep leads to a new connection attempt unless the cancellation
\* arrives in it; and the consumer leaves its loop only when cancelled,
\* whatever the number of failures.
C17_RetriesUntilCancelled ==
    /\ [][fails' > fails => cpc' = "sleep"]_vars
    /\ [](cpc \in {"put_none", "await_writer", "returned", "raised"} => cancelAt # "")
    /\ (cpc = "sleep") ~> (cpc = "connect" \/ cancelAt = "sleep")

\* After MaxFails consecutive failures the consumer is connecting again.
C17_Witness ==
    /\ cpc = "connect"
    /\ cancelAt = ""
    /\ fails = MaxFails
    /\ conn_id >= 1
    /\ nrecv >= 1

\* ------------------------------------------- claims: the connection id
\* C18: conn_id changes only on entering Connected, where it grows by one
\* (no two connections share an id); every record enqueued carries the
\* conn_id of the connection it was received on; the conn_id values of the
\* records are non-decreasing in enqueue order.
C18_ConnIdIncreases ==
    /\ [][(cpc = "connect" /\ cpc' = "recv") => conn_id' = conn_id + 1]_vars
    /\ [][conn_id' # conn_id => (cpc = "connect" /\ cpc' = "recv")]_vars
    /\ [][enqueued' # enqueued =>
            /\ cpc = "recv"
            /\ enqueued' = Append(enqueued, enqueued'[Len(enqueued')])
            /\ enqueued'[Len(enqueued')].line.conn_id = conn_id]_vars
    /\ [](\A i, j \in 1..Len(enqueued) :
            i < j => enqueued[i].line.conn_id <= enqueued[j].line.conn_id)
    /\ [](\A i \in 1..Len(enqueued) :
            1 <= enqueued[i].line.conn_id /\ enqueued[i].line.conn_id <= conn_id)

\* Records of two connections have been enqueued.
C18_Witness ==
    /\ Len(enqueued) >= 2
    /\ enqueued[1].line.conn_id = 1
    /\ enqueued[Len(enqueued)].line.conn_id = 2
    /\ conn_id = 2

\* ------------------------------------------- claims: the writer's fields
\* C19: after every return of write() or close(): fp, tmp_path and
\* final_path are set exactly when current_bucket is, and name the files of
\* that bucket; the buffer is empty when no file is open; every buffered
\* line is of an item of current_bucket; the buffer holds fewer than
\* BATCH_SIZE lines.
C19_WriterFieldsConsistent ==
    wstatus \in {"running", "closed"} =>
        /\ (fp # None) <=> (current_bucket # None)
        /\ (tmp_path # None) <=> (current_bucket # None)
        /\ (final_path # None) <=> (current_bucket # None)
        /\ current_bucket # None =>
              /\ final_path = minute_filename(current_bucket[1])
              /\ tmp_path = TmpPathOf(final_path)
              /\ fp = tmp_path
              /\ Exists(fs, fp)
        /\ fp = None => buffer = <<>>
        /\ \A i \in 1..Len(buffer) : Some(input[buffer[i]].bucket) = current_bucket
        /\ Len(buffer) < BATCH_SIZE

\* A write() after a rotation has returned with a line in the buffer.
C19_Witness ==
    /\ wstatus = "running"
    /\ ~everCrashed
    /\ current_bucket = Some(101)
    /\ Exists(fs, minute_filename(100))
    /\ Len(buffer) = BATCH_SIZE - 1
    /\ Len(input) >= 3

\* ------------------------------------- claims: crashes of a pass
\* The normalized records of the kept lines of lines, in order.
RECURSIVE NormalizedOf(_)
NormalizedOf(lines) ==
    IF lines = <<>> THEN <<>>
    ELSE (IF Head(lines).kind = "delta" THEN <<normalize_delta(Head(lines))>> ELSE <<>>)
         \o NormalizedOf(Tail(lines))

NormComplete == norm_file # None /\ norm_file[1] = NormalizedOf(raw_file)

\* C20: across crashes of a pass at any step and re-runs, whenever the
\* normalized file and the audit file both exist the normalized file holds
\* the normalized record of every kept line of the raw file; the audit file
\* is created only once the normalized file has been written in full and
\* closed.
C20_OutputsCompleteWhenSkipped ==
    /\ []((norm_file # None /\ audit_file # None) => NormComplete)
    /\ [][(audit_file = None /\ audit_file' # None) =>
            (npc = "audit_open" /\ NormComplete /\ norm_file' = norm_file)]_vars

\* A pass crashed, the next one ran to its end.
C20_Witness ==
    /\ npc = "idle"
    /\ runs = 2 /\ skips = 0 /\ audit_records = 1
    /\ Dumped
    /\ Len(norm_file[1]) >= 2
    /\ Len(raw_file) > Len(norm_file[1])

====
